---- MODULE Spec2Model ----
(***************************************************************************)
(* Model of the filebrowser SDK: the local download helpers, the remote    *)
(* Client and the SaveAndShare pipeline.                                   *)
(*                                                                         *)
(* Go strings are sequences of one-character strings, "" is << >>.         *)
(***************************************************************************)
EXTENDS Integers, Sequences, FiniteSets, TLC

VARIABLES
    fs,           \* local filesystem: local path -> NoFile or the byte length of the file
    srcSize,      \* byte length of the body the source URL serves
    remote,       \* remote service: remote path -> NoFile or the size of the resource
    shares,       \* remote service: number of share records created so far
    client,       \* the Client value: URL, Username, Password, Token
    logins,       \* outcomes of the login requests sent for this client, in order
    direct,       \* TRUE once the caller has called Client.Login directly
    pc,           \* position of the SaveAndShare run
    args,         \* arguments of the current SaveAndShare call
    localPath,    \* SaveAndShare local: localPath
    remotePath,   \* SaveAndShare local: remotePath
    resourceRet,  \* SaveAndShare local: resourceRet
    shouldUpload, \* SaveAndShare local: shouldUpload
    result,       \* SaveAndShare return value: Nil or a ShareResult
    err,          \* SaveAndShare return error: NoErr or the failing stage
    log,          \* requests issued by the current top-level call, in order
    ret,          \* return value and observed outcomes of the last call
    prev          \* arguments of the caller's last SaveAndShare call, if it succeeded

vars == <<fs, srcSize, remote, shares, client, logins, direct, pc, args, localPath,
          remotePath, resourceRet, shouldUpload, result, err, log, ret, prev>>

\* ---------------------------------------------------------------- bounds
MaxSize == 2
MaxShares == 2
MaxLogins == 3
MaxExpires == 2

\* ------------------------------------------------------------- constants
\* the state of a path with no file: no byte length
NoFile == 0 - 1
Nil == [nil |-> TRUE]
NoErr == "NoErr"
EmptyStr == << >>

Sizes == 0..MaxSize
FileStates == {NoFile} \cup Sizes

\* ------------------------------------------------------- string helpers
Slash == "/"

RECURSIVE IndexFrom(_, _, _)
\* index of the first occurrence of character c in s at or after i, 0 if none
IndexFrom(s, c, i) ==
    IF i > Len(s) THEN 0
    ELSE IF s[i] = c THEN i
    ELSE IndexFrom(s, c, i + 1)

HasPrefix(s, p) == Len(s) >= Len(p) /\ SubSeq(s, 1, Len(p)) = p

\* strings.TrimPrefix
TrimPrefix(s, p) == IF HasPrefix(s, p) THEN SubSeq(s, Len(p) + 1, Len(s)) ELSE s

Digit(d) == CASE d = 0 -> "0" [] d = 1 -> "1" [] d = 2 -> "2" [] d = 3 -> "3"
              [] d = 4 -> "4" [] d = 5 -> "5" [] d = 6 -> "6" [] d = 7 -> "7"
              [] d = 8 -> "8" [] d = 9 -> "9"

RECURSIVE FormatNat(_)
FormatNat(n) == IF n < 10 THEN <<Digit(n)>> ELSE FormatNat(n \div 10) \o <<Digit(n % 10)>>

\* fmt.Sprintf("%d", n)
FormatInt(n) == IF n < 0 THEN <<"-">> \o FormatNat(-n) ELSE FormatNat(n)

\* --------------------------------------------------------- path/filepath
RECURSIVE SplitFrom(_, _, _)
\* the segments of s between slashes, from position i, cur being the segment under way
SplitFrom(s, i, cur) ==
    IF i > Len(s) THEN <<cur>>
    ELSE IF s[i] = Slash THEN <<cur>> \o SplitFrom(s, i + 1, << >>)
    ELSE SplitFrom(s, i + 1, Append(cur, s[i]))

Split(s) == SplitFrom(s, 1, << >>)

Dot == <<".">>
DotDot == <<".", ".">>

RECURSIVE CleanSegs(_, _, _, _)
\* filepath.Clean's element loop: out is the stack of kept elements
CleanSegs(segs, i, out, rooted) ==
    IF i > Len(segs) THEN out
    ELSE LET e == segs[i] IN
         IF e = << >> \/ e = Dot THEN CleanSegs(segs, i + 1, out, rooted)
         ELSE IF e = DotDot THEN
              IF Len(out) > 0 /\ out[Len(out)] # DotDot
                  THEN CleanSegs(segs, i + 1, SubSeq(out, 1, Len(out) - 1), rooted)
              ELSE IF rooted THEN CleanSegs(segs, i + 1, out, rooted)
              ELSE CleanSegs(segs, i + 1, Append(out, e), rooted)
         ELSE CleanSegs(segs, i + 1, Append(out, e), rooted)

RECURSIVE JoinSegs(_, _)
JoinSegs(segs, i) ==
    IF i > Len(segs) THEN << >>
    ELSE IF i = Len(segs) THEN segs[i]
    ELSE segs[i] \o <<Slash>> \o JoinSegs(segs, i + 1)

\* filepath.Clean
Clean(p) ==
    IF p = << >> THEN Dot
    ELSE LET rooted == p[1] = Slash
             body == JoinSegs(CleanSegs(Split(p), 1, << >>, rooted), 1)
         IN IF rooted THEN <<Slash>> \o body
            ELSE IF body = << >> THEN Dot ELSE body

\* filepath.Join(a, b)
Join(a, b) ==
    IF a = << >> /\ b = << >> THEN << >>
    ELSE IF a = << >> THEN Clean(b)
    ELSE IF b = << >> THEN Clean(a)
    ELSE Clean(a \o <<Slash>> \o b)

RECURSIVE StripTrailingSlashes(_)
StripTrailingSlashes(p) ==
    IF Len(p) > 0 /\ p[Len(p)] = Slash THEN StripTrailingSlashes(SubSeq(p, 1, Len(p) - 1)) ELSE p

\* filepath.Base
Base(p) ==
    IF p = << >> THEN Dot
    ELSE LET q == StripTrailingSlashes(p) IN
         IF q = << >> THEN <<Slash>>
         ELSE LET segs == Split(q) IN segs[Len(segs)]

\* filepath.Dir
Dir(p) ==
    LET segs == Split(p) IN
    Clean(IF Len(segs) = 1 THEN << >>
          ELSE SubSeq(p, 1, Len(p) - Len(segs[Len(segs)])))

\* os.TempDir()
TempDir == <<"/", "t">>

\* ---------------------------------------------------------------- net/url
Letters == {"s", "x", "y", "a", "b", "f"}

RECURSIVE SchemeEnd(_, _)
\* url.getScheme: the index of the colon ending the scheme, 0 when the URL
\* has no scheme, -1 when it starts with a colon (missing protocol scheme)
SchemeEnd(raw, i) ==
    IF i > Len(raw) THEN 0
    ELSE IF raw[i] \in Letters THEN SchemeEnd(raw, i + 1)
    ELSE IF raw[i] = "." THEN (IF i = 1 THEN 0 ELSE SchemeEnd(raw, i + 1))
    ELSE IF raw[i] = ":" THEN (IF i = 1 THEN -1 ELSE i)
    ELSE 0

\* the part of s before the first c (all of s when c does not occur)
Before(s, c) == LET i == IndexFrom(s, c, 1) IN IF i = 0 THEN s ELSE SubSeq(s, 1, i - 1)

\* the part of s from the first c on (empty when c does not occur)
From(s, c) == LET i == IndexFrom(s, c, 1) IN IF i = 0 THEN << >> ELSE SubSeq(s, i, Len(s))

\* url.parseHost: a host that opens a bracket must close it
HostOk(h) == (Len(h) > 0 /\ h[1] = "[") => IndexFrom(h, "]", 1) # 0

\* url.Parse: ok is FALSE when parsing fails, Path is the URL's path component
ParseURL(raw) ==
    LET noFrag == Before(raw, "#")
        se == SchemeEnd(noFrag, 1)
        hasScheme == se > 0
        afterScheme == IF hasScheme THEN SubSeq(noFrag, se + 1, Len(noFrag)) ELSE noFrag
        rest == Before(afterScheme, "?")
    IN  IF se = -1 THEN [ok |-> FALSE, Path |-> << >>]
        ELSE IF ~HasPrefix(rest, <<Slash>>) THEN
             IF hasScheme THEN [ok |-> TRUE, Path |-> << >>]
             ELSE IF IndexFrom(Before(rest, Slash), ":", 1) # 0
                  THEN [ok |-> FALSE, Path |-> << >>]
             ELSE [ok |-> TRUE, Path |-> rest]
        ELSE IF HasPrefix(rest, <<Slash, Slash>>) /\ (hasScheme \/ ~HasPrefix(rest, <<Slash, Slash, Slash>>)) THEN
             LET auth == SubSeq(rest, 3, Len(rest))
                 host == Before(auth, Slash)
             IN  IF HostOk(host) THEN [ok |-> TRUE, Path |-> From(auth, Slash)]
                 ELSE [ok |-> FALSE, Path |-> << >>]
        ELSE [ok |-> TRUE, Path |-> rest]

\* ------------------------------------------------------------ the inputs
UrlFilesA == <<"s", ":", "/", "/", "x", "/", "f", "/", "a">>
UrlA == <<"s", ":", "/", "/", "x", "/", "a">>
UrlRoot == <<"s", ":", "/", "/", "x", "/">>
UrlNoPath == <<"s", ":", "/", "/", "x">>
UrlOtherHost == <<"s", ":", "/", "/", "y", "/", "f", "/", "a", "?", "b">>
UrlBadHost == <<"s", ":", "/", "/", "[", "x", "/", "f", "/", "a">>
UrlDotDot == <<"s", ":", "/", "/", "x", "/", ".", ".", "/", "a">>
UrlTwoSlashes == <<"s", ":", "/", "/", "x", "/", "/", "a">>
UrlRelative == <<"f", "/", "a">>

URLSet == {EmptyStr, UrlFilesA, UrlA, UrlRoot, UrlNoPath, UrlOtherHost, UrlBadHost,
           UrlDotDot, UrlTwoSlashes, UrlRelative}

\* the URLs DownloadToLocal is called with
DownloadURLs == {EmptyStr, UrlFilesA, UrlA}

\* ------------------------------------------------------- local helpers
DefaultName == <<"d", "o", "w", "n", "l", "o", "a", "d", "e", "d", "_", "f", "i", "l", "e">>

\* LocalPathForDownload without the trimming of the leading slash
LocalPathForDownloadUntrimmed(fileURL) ==
    LET parsedURL == ParseURL(fileURL) IN
    IF ~parsedURL.ok THEN Join(TempDir, Base(fileURL))
    ELSE Join(TempDir, IF parsedURL.Path = EmptyStr THEN DefaultName ELSE parsedURL.Path)

\* LocalPathForDownload
LocalPathForDownload(fileURL) ==
    LET parsedURL == ParseURL(fileURL) IN
    IF ~parsedURL.ok THEN Join(TempDir, Base(fileURL))
    ELSE LET path == TrimPrefix(parsedURL.Path, <<Slash>>) IN
         Join(TempDir, IF path = EmptyStr THEN DefaultName ELSE path)

LocalPaths == {LocalPathForDownload(u) : u \in DownloadURLs \ {EmptyStr}}

\* fileutil.IsExist on the file state f of a path
IsExist(f) == f # NoFile

\* convertor.ToInt of an int64: the value itself, no error
ToInt(v) == [val |-> v, failed |-> FALSE]

\* fileExistsWithSameSize accepting a file that is at least as long as expected
fileExistsWithAtLeastSize(f, expectedSize, statErr) ==
    IF ~IsExist(f) THEN FALSE
    ELSE IF statErr THEN FALSE
    ELSE f >= expectedSize

\* fileExistsWithSameSize, f being the state of the file at localPath and
\* statErr telling whether fileutil.FileSize fails
fileExistsWithSameSize(f, expectedSize, statErr) ==
    IF ~IsExist(f) THEN FALSE
    ELSE IF statErr THEN FALSE
    ELSE LET expectedSizeInt == ToInt(expectedSize) IN
         IF expectedSizeInt.failed THEN FALSE
         ELSE f = expectedSizeInt.val

\* EnsureFolderForFile dropping the error of fileutil.CreateDir
EnsureFolderForFileIgnoringError(path, mkdirOk) ==
    IF path = EmptyStr THEN "local path cannot be empty"
    ELSE NoErr

\* EnsureFolderForFile, mkdirOk telling whether fileutil.CreateDir succeeds
EnsureFolderForFile(path, mkdirOk) ==
    IF path = EmptyStr THEN "local path cannot be empty"
    ELSE IF ~mkdirOk THEN "failed to create directory"
    ELSE NoErr

\* Validate without the password check
ValidateNoPassword(auth) ==
    IF auth.URL = EmptyStr THEN "URL cannot be empty"
    ELSE IF auth.Username = EmptyStr THEN "username cannot be empty"
    ELSE NoErr

\* FilebrowserAuth.Validate
Validate(auth) ==
    IF auth.URL = EmptyStr THEN "URL cannot be empty"
    ELSE IF auth.Username = EmptyStr THEN "username cannot be empty"
    ELSE IF auth.Password = EmptyStr THEN "password cannot be empty"
    ELSE NoErr


\* the expected sizes callers pass
SizeArgs == (0 - 1)..(MaxSize + 1)

\* ------------------------------------------------------- DownloadToLocal
DlOutcomes == {"ok", "geterr", "createerr", "partial"}

\* netutil.DownloadFile(localPath, fileURL): http.Get, os.Create, io.Copy.
\* f is the file at localPath before the call, part the bytes written when
\* the copy breaks off
DownloadFile(f, dl, part) ==
    CASE dl = "ok" -> [file |-> srcSize, failed |-> FALSE]
      [] dl = "geterr" -> [file |-> f, failed |-> TRUE]
      [] dl = "createerr" -> [file |-> f, failed |-> TRUE]
      [] dl = "partial" -> [file |-> part, failed |-> TRUE]

\* CacheCheck without the test that the expected size is known
CacheCheckAnySize(f, fileSize, statErr) == fileExistsWithSameSize(f, fileSize, statErr)

\* DownloadToLocal's check if file already exists with same size
CacheCheck(f, fileSize, statErr) == fileSize > 0 /\ fileExistsWithSameSize(f, fileSize, statErr)

\* DownloadToLocal(fileURL, fileSize); mkdirOk, statErr, dl and part are the
\* outcomes of the filesystem and network calls it makes
DownloadToLocal(prior, fileURL, fileSize, mkdirOk, statErr, dl, part) ==
    LET call == [op |-> "DownloadToLocal", url |-> fileURL, size |-> fileSize,
                 mkdirOk |-> mkdirOk, statErr |-> statErr]
    IN
    IF fileURL = EmptyStr
    THEN /\ ret' = call @@ [val |-> EmptyStr, err |-> "file URL cannot be empty"]
         /\ log' = prior
         /\ fs' = fs
    ELSE LET path == LocalPathForDownload(fileURL) IN
         IF EnsureFolderForFile(path, mkdirOk) # NoErr
         THEN /\ ret' = call @@ [val |-> EmptyStr, err |-> "failed to create directory for file"]
              /\ log' = prior
              /\ fs' = fs
         ELSE IF CacheCheck(fs[path], fileSize, statErr)
         THEN /\ ret' = call @@ [val |-> path, err |-> NoErr]
              /\ log' = prior
              /\ fs' = fs
         ELSE LET d == DownloadFile(fs[path], dl, part) IN
              /\ fs' = [fs EXCEPT ![path] = d.file]
              /\ log' = Append(prior, [op |-> "transfer", url |-> fileURL, path |-> path])
              /\ ret' = call @@ (IF d.failed
                                 THEN [val |-> EmptyStr, err |-> "failed to download file"]
                                 ELSE [val |-> path, err |-> NoErr])

\* the outcomes the environment can produce for a DownloadToLocal call: the
\* directory of an existing file exists, a copy breaks off before the end
DownloadEnv(fileURL, mkdirOk, statErr, dl, part) ==
    /\ mkdirOk \in BOOLEAN
    /\ statErr \in BOOLEAN
    /\ dl \in DlOutcomes
    /\ part \in Sizes
    /\ IF dl = "partial" THEN part < srcSize ELSE part = 0
    /\ (fileURL # EmptyStr /\ fs[LocalPathForDownload(fileURL)] # NoFile) => mkdirOk

\* ----------------------------------------------------------------- Client
BaseURL == <<"b">>
User == <<"u">>
Pass == <<"p">>
Tokens == {<<"t">>, <<"v">>}

\* Client.Validate
ClientValidate(c) ==
    IF c.URL = EmptyStr THEN "URL cannot be empty"
    ELSE IF c.Username = EmptyStr THEN "username cannot be empty"
    ELSE IF c.Password = EmptyStr THEN "password cannot be empty"
    ELSE NoErr

\* what the server can answer to POST /api/login
LoginResponses ==
    {[kind |-> "reqerr"], [kind |-> "http", status |-> 403, body |-> EmptyStr],
     [kind |-> "http", status |-> 200, body |-> EmptyStr]}
    \cup {[kind |-> "http", status |-> 200, body |-> t] : t \in Tokens}

\* Client.Login: the client afterwards, the error, the outcomes of the
\* login requests sent
Login(c, resp) ==
    IF ClientValidate(c) # NoErr
    THEN [client |-> c, err |-> "invalid client configuration", sent |-> << >>]
    ELSE IF resp.kind = "reqerr"
    THEN [client |-> c, err |-> "login request failed", sent |-> <<"fail">>]
    ELSE IF resp.status # 200
    THEN [client |-> c, err |-> "login failed with status code", sent |-> <<"fail">>]
    ELSE LET c2 == [c EXCEPT !.Token = resp.body] IN
         IF c2.Token = EmptyStr
         THEN [client |-> c2, err |-> "received empty token from server", sent |-> <<"fail">>]
         ELSE [client |-> c2, err |-> NoErr, sent |-> <<"ok">>]

\* ensureAuthenticated logging in whether or not a token is held
ensureAuthenticatedAlways(c, resp) ==
    Login(c, IF resp.kind = "none" THEN [kind |-> "reqerr"] ELSE resp)

\* Client.ensureAuthenticated
ensureAuthenticated(c, resp) ==
    IF c.Token = EmptyStr THEN Login(c, resp)
    ELSE [client |-> c, err |-> NoErr, sent |-> << >>]

\* the login requests of a call, as entries of the request log
LoginReqs(a) == [i \in 1..Len(a.sent) |-> [op |-> "login"]]

\* the login responses that matter to a call on client c
LoginEnv(c) == IF c.Token = EmptyStr THEN LoginResponses ELSE {[kind |-> "none"]}

\* the remote path the service is asked about
UploadsDir == <<"u">>

\* the caller's remotePathFn: one that returns "", one that joins a folder and the name
ApplyFn(kind, name) == IF kind = "empty" THEN EmptyStr ELSE Join(UploadsDir, name)

RemotePaths == {ApplyFn("uploads", Base(LocalPathForDownload(UrlFilesA)))}

\* what the server can answer to GET /api/resources/{path}
GetResponses(rp) ==
    IF rp = EmptyStr THEN {[kind |-> "none"]}
    ELSE {[kind |-> "reqerr"], [kind |-> "http", status |-> 500]}
         \cup (IF remote[rp] = NoFile THEN {[kind |-> "http", status |-> 404]}
               ELSE {[kind |-> "http", status |-> 200, Size |-> remote[rp]]})

\* Client.GetResource
GetResource(prior, rp, lresp, resp) ==
    LET call == [op |-> "GetResource", path |-> rp] IN
    /\ UNCHANGED <<remote, shares>>
    /\ IF rp = EmptyStr
       THEN /\ ret' = call @@ [val |-> Nil, err |-> "remote path cannot be empty"]
            /\ log' = prior
            /\ UNCHANGED <<client, logins>>
       ELSE LET a == ensureAuthenticated(client, lresp) IN
            /\ client' = a.client
            /\ logins' = logins \o a.sent
            /\ IF a.err # NoErr
               THEN /\ ret' = call @@ [val |-> Nil, err |-> "authentication failed"]
                    /\ log' = prior \o LoginReqs(a)
               ELSE /\ log' = prior \o LoginReqs(a) \o <<[op |-> "get", path |-> rp]>>
                    /\ ret' = call @@
                         (IF resp.kind = "reqerr"
                          THEN [val |-> Nil, err |-> "resource request failed"]
                          ELSE IF resp.status = 404
                          THEN [val |-> [NotExist |-> TRUE, Size |-> 0], err |-> NoErr]
                          ELSE IF resp.status # 200
                          THEN [val |-> Nil, err |-> "resource request failed with status code"]
                          ELSE [val |-> [NotExist |-> FALSE, Size |-> resp.Size], err |-> NoErr])

\* what the server can answer to DELETE /api/resources/{path}
DeleteResponses(rp) ==
    IF rp = EmptyStr THEN {[kind |-> "none"]}
    ELSE {[kind |-> "reqerr"], [kind |-> "http", status |-> 500]}
         \cup (IF remote[rp] = NoFile THEN {[kind |-> "http", status |-> 404]}
               ELSE {[kind |-> "http", status |-> 200]})

\* Client.DeleteResource
DeleteResource(prior, rp, lresp, resp) ==
    LET call == [op |-> "DeleteResource", path |-> rp] IN
    /\ UNCHANGED shares
    /\ IF rp = EmptyStr
       THEN /\ ret' = call @@ [err |-> "remote path cannot be empty"]
            /\ log' = prior
            /\ UNCHANGED <<client, logins, remote>>
       ELSE LET a == ensureAuthenticated(client, lresp) IN
            /\ client' = a.client
            /\ logins' = logins \o a.sent
            /\ IF a.err # NoErr
               THEN /\ ret' = call @@ [err |-> "authentication failed"]
                    /\ log' = prior \o LoginReqs(a)
                    /\ UNCHANGED remote
               ELSE /\ log' = prior \o LoginReqs(a) \o <<[op |-> "delete", path |-> rp]>>
                    /\ remote' = IF resp.kind = "http" /\ resp.status = 200
                                 THEN [remote EXCEPT ![rp] = NoFile] ELSE remote
                    /\ ret' = call @@
                         (IF resp.kind = "reqerr"
                          THEN [err |-> "delete request failed"]
                          ELSE IF resp.status # 200 /\ resp.status # 404
                          THEN [err |-> "delete request failed with status code"]
                          ELSE [err |-> NoErr])

UploadOutcomes == {"ok", "openerr", "createerr", "uploaderr"}

\* the outcomes the environment can produce for an upload of local file lp:
\* a transfer that breaks off leaves part bytes at the remote path
UploadEnv(lp, out, part) ==
    /\ out \in UploadOutcomes
    /\ part \in Sizes
    /\ IF out = "uploaderr" /\ lp \in DOMAIN fs /\ fs[lp] # NoFile
       THEN part <= fs[lp] ELSE part = 0

\* Client.Upload
Upload(prior, lp, rp, lresp, out, part) ==
    LET call == [op |-> "Upload", local |-> lp, path |-> rp] IN
    /\ UNCHANGED shares
    /\ IF lp = EmptyStr
       THEN /\ ret' = call @@ [err |-> "local path cannot be empty"]
            /\ log' = prior
            /\ UNCHANGED <<client, logins, remote>>
       ELSE IF rp = EmptyStr
       THEN /\ ret' = call @@ [err |-> "remote path cannot be empty"]
            /\ log' = prior
            /\ UNCHANGED <<client, logins, remote>>
       ELSE IF fs[lp] = NoFile
       THEN /\ ret' = call @@ [err |-> "local file does not exist"]
            /\ log' = prior
            /\ UNCHANGED <<client, logins, remote>>
       ELSE LET a == ensureAuthenticated(client, lresp) IN
            /\ client' = a.client
            /\ logins' = logins \o a.sent
            /\ IF a.err # NoErr
               THEN /\ ret' = call @@ [err |-> "authentication failed"]
                    /\ log' = prior \o LoginReqs(a)
                    /\ UNCHANGED remote
               ELSE IF out = "openerr"
               THEN /\ ret' = call @@ [err |-> "failed to open local file"]
                    /\ log' = prior \o LoginReqs(a)
                    /\ UNCHANGED remote
               ELSE /\ log' = prior \o LoginReqs(a)
                              \o <<[op |-> "upload", path |-> rp, size |-> fs[lp]]>>
                    /\ remote' = CASE out = "ok" -> [remote EXCEPT ![rp] = fs[lp]]
                                   [] out = "uploaderr" -> [remote EXCEPT ![rp] = part]
                                   [] OTHER -> remote
                    /\ ret' = call @@
                         (CASE out = "ok" -> [err |-> NoErr]
                            [] out = "createerr" -> [err |-> "failed to create upload"]
                            [] out = "uploaderr" -> [err |-> "upload failed"])

\* the ReqShare struct
ReqShare(expires, password, unit) == [Expires |-> expires, Password |-> password, Unit |-> unit]

\* MarshalReqShare as it would be with omitempty tags on the fields
MarshalReqShareOmitEmpty(b) ==
    {kv \in {<<"Expires", b.Expires>>, <<"Password", b.Password>>, <<"Unit", b.Unit>>} :
        kv[2] # EmptyStr}

\* the JSON object SetBody sends for a ReqShare: its fields carry no json
\* tags, so every field is written under its own name, empty or not
MarshalReqShare(b) == {<<"Expires", b.Expires>>, <<"Password", b.Password>>, <<"Unit", b.Unit>>}

\* what the server can answer to POST /api/share/{path}: the hash names the
\* share record it has just created
ShareResponses ==
    {[kind |-> "reqerr"], [kind |-> "http", status |-> 500, Hash |-> EmptyStr],
     [kind |-> "http", status |-> 200, Hash |-> EmptyStr]}
    \cup (IF shares < MaxShares
          THEN {[kind |-> "http", status |-> 200, Hash |-> <<"h">> \o FormatInt(shares + 1)]}
          ELSE {})

\* Client.Share
Share(prior, rp, expires, password, unit, lresp, resp) ==
    LET call == [op |-> "Share", path |-> rp, expires |-> expires,
                 password |-> password, unit |-> unit] IN
    /\ UNCHANGED remote
    /\ IF rp = EmptyStr
       THEN /\ ret' = call @@ [val |-> EmptyStr, err |-> "remote path cannot be empty"]
            /\ log' = prior
            /\ UNCHANGED <<client, logins, shares>>
       ELSE LET a == ensureAuthenticated(client, lresp) IN
            /\ client' = a.client
            /\ logins' = logins \o a.sent
            /\ IF a.err # NoErr
               THEN /\ ret' = call @@ [val |-> EmptyStr, err |-> "authentication failed"]
                    /\ log' = prior \o LoginReqs(a)
                    /\ UNCHANGED shares
               ELSE LET body == IF expires > 0
                                THEN ReqShare(FormatInt(expires), password, unit)
                                ELSE ReqShare(EmptyStr, EmptyStr, EmptyStr)
                    IN
                    /\ log' = prior \o LoginReqs(a)
                              \o <<[op |-> "share", path |-> rp, body |-> MarshalReqShare(body)]>>
                    /\ shares' = IF resp.kind = "http" /\ resp.status = 200 /\ resp.Hash # EmptyStr
                                 THEN shares + 1 ELSE shares
                    /\ ret' = call @@
                         (IF resp.kind = "reqerr"
                          THEN [val |-> EmptyStr, err |-> "share request failed"]
                          ELSE IF resp.status # 200
                          THEN [val |-> EmptyStr, err |-> "share request failed with status code"]
                          ELSE IF resp.Hash = EmptyStr
                          THEN [val |-> EmptyStr, err |-> "received empty hash from server"]
                          ELSE [val |-> resp.Hash, err |-> NoErr])

\* ------------------------------------------------------------ SaveAndShare
AuthSet == [URL : {EmptyStr, BaseURL}, Username : {EmptyStr, User}, Password : {EmptyStr, Pass}]
PipelineURLs == {EmptyStr, UrlFilesA}
FnKinds == {"nil", "empty", "uploads"}
ShareParamSet == [Expires : {0, 1}, Password : {Pass}, Unit : {<<"d">>}]
ActionParamSet == [ShareParams : ShareParamSet, FileSize : SizeArgs, Force : BOOLEAN]

NoArgs == [none |-> TRUE]
NoClient == [URL |-> EmptyStr, Username |-> EmptyStr, Password |-> EmptyStr, Token |-> EmptyStr]
NoResource == [NotExist |-> FALSE, Size |-> 0]
NoCall == [op |-> "none"]
NoPrev == [none |-> TRUE]

envVars == <<fs, srcSize, remote, shares>>
clientVars == <<client, logins, direct>>
runVars == <<pc, args, localPath, remotePath, resourceRet, shouldUpload, result, err, prev>>

\* a return of SaveAndShare with an error
Fail(msg) ==
    /\ pc' = "done"
    /\ err' = msg
    /\ result' = Nil

\* OnReturn with the callee's error dropped
OnReturnIgnoringError(e, msg, next) ==
    /\ pc' = next
    /\ UNCHANGED <<err, result>>

\* SaveAndShare's handling of a callee's error: return it, or go on
OnReturn(e, msg, next) ==
    IF e # NoErr THEN Fail(msg)
    ELSE /\ pc' = next
         /\ UNCHANGED <<err, result>>

\* SaveAndShare, entry and input validation
Begin(auth, externalURL, remotePathFn, actionParams) ==
    /\ pc = "idle"
    /\ args' = [auth |-> auth, externalURL |-> externalURL,
                remotePathFn |-> remotePathFn, actionParams |-> actionParams]
    /\ IF Validate(auth) # NoErr THEN Fail("invalid authentication")
       ELSE IF externalURL = EmptyStr THEN Fail("external URL cannot be empty")
       ELSE IF remotePathFn = "nil" THEN Fail("remote path function cannot be nil")
       ELSE /\ pc' = "download"
            /\ err' = NoErr
            /\ result' = Nil
    /\ UNCHANGED <<envVars, clientVars, localPath, remotePath, resourceRet, shouldUpload, log, ret, prev>>

\* SaveAndShare has returned: its frame and its client are gone, the files
\* and the remote service stay as the run left them
Unwind ==
    /\ pc = "done"
    /\ pc' = "idle"
    /\ args' = NoArgs
    /\ log' = << >>
    /\ ret' = NoCall
    /\ client' = NoClient
    /\ logins' = << >>
    /\ localPath' = EmptyStr
    /\ remotePath' = EmptyStr
    /\ resourceRet' = NoResource
    /\ shouldUpload' = TRUE
    /\ result' = Nil
    /\ err' = NoErr
    /\ UNCHANGED <<envVars, direct>>

\* the caller takes the result of SaveAndShare
Return == Unwind /\ UNCHANGED prev

\* the caller takes the result of SaveAndShare and keeps the arguments of a
\* call that succeeded, to call again with them
ReturnRemember == Unwind /\ prev' = IF err = NoErr THEN args ELSE NoPrev

\* SaveAndShare, download file to local
StepDownload ==
    /\ pc = "download"
    /\ \E mkdirOk, statErr \in BOOLEAN, dl \in DlOutcomes, part \in Sizes :
          /\ DownloadEnv(args.externalURL, mkdirOk, statErr, dl, part)
          /\ DownloadToLocal(log, args.externalURL, args.actionParams.FileSize,
                             mkdirOk, statErr, dl, part)
    /\ localPath' = ret'.val
    /\ OnReturn(ret'.err, "failed to download file", "path")
    /\ UNCHANGED <<srcSize, remote, shares, clientVars, prev, args, remotePath, resourceRet, shouldUpload>>

\* SaveAndShare, generate remote path and create client
StepRemotePath ==
    /\ pc = "path"
    /\ LET name == Base(localPath)
           rp == ApplyFn(args.remotePathFn, name)
       IN /\ remotePath' = rp
          /\ client' = IF rp = EmptyStr THEN client
                        ELSE [URL |-> args.auth.URL, Username |-> args.auth.Username,
                              Password |-> args.auth.Password, Token |-> EmptyStr]
          /\ OnReturn(IF rp = EmptyStr THEN "empty" ELSE NoErr,
                      "remote path cannot be empty", "get")
    /\ UNCHANGED <<envVars, logins, direct, prev, args, localPath, resourceRet, shouldUpload, log, ret>>

\* SaveAndShare, check if resource exists
StepGetResource ==
    /\ pc = "get"
    /\ \E lresp \in LoginEnv(client), resp \in GetResponses(remotePath) :
          GetResource(log, remotePath, lresp, resp)
    /\ resourceRet' = IF ret'.err # NoErr THEN NoResource ELSE ret'.val
    /\ OnReturn(ret'.err, "failed to get resource info", "sync")
    /\ UNCHANGED <<fs, srcSize, direct, prev, args, localPath, remotePath, shouldUpload>>

\* SyncBranch replacing the resource whenever a size is given, equal or not
SyncBranchNoSizeMatch(res, actionParams) ==
    IF res.NotExist THEN "upload"
    ELSE IF actionParams.Force THEN "force"
    ELSE IF actionParams.FileSize > 0 THEN "mismatch"
    ELSE "skip"

\* SyncBranch uploading over a resource of another size without deleting it
SyncBranchNoDelete(res, actionParams) ==
    IF res.NotExist THEN "upload"
    ELSE IF actionParams.Force THEN "force"
    ELSE IF actionParams.FileSize > 0 /\ res.Size # actionParams.FileSize THEN "upload"
    ELSE "skip"

\* SyncBranch with the size comparison made before the force flag is looked at
SyncBranchSizeFirst(res, actionParams) ==
    IF res.NotExist THEN "upload"
    ELSE IF actionParams.FileSize > 0 /\ res.Size = actionParams.FileSize THEN "skip"
    ELSE IF actionParams.Force THEN "force"
    ELSE IF actionParams.FileSize > 0 THEN "mismatch"
    ELSE "skip"

\* the branch of the size comparison and force overwrite: which delete, if any
SyncBranch(res, actionParams) ==
    IF res.NotExist THEN "upload"
    ELSE IF actionParams.Force THEN "force"
    ELSE IF actionParams.FileSize > 0 /\ res.Size # actionParams.FileSize THEN "mismatch"
    ELSE "skip"

\* SaveAndShare, handle file size comparison and force overwrite
StepSync ==
    /\ pc = "sync"
    /\ LET branch == SyncBranch(resourceRet, args.actionParams) IN
       IF branch \in {"force", "mismatch"}
       THEN /\ \E lresp \in LoginEnv(client), resp \in DeleteResponses(remotePath) :
                  DeleteResource(log, remotePath, lresp, resp)
            /\ OnReturn(ret'.err, IF branch = "force" THEN "failed to delete existing resource"
                                   ELSE "failed to delete mismatched resource", "upload")
            /\ UNCHANGED shouldUpload
       ELSE /\ shouldUpload' = (branch # "skip")
            /\ pc' = "upload"
            /\ UNCHANGED <<err, result, remote, shares, client, logins, log, ret>>
    /\ UNCHANGED <<fs, srcSize, direct, prev, args, localPath, remotePath, resourceRet>>

\* SaveAndShare, upload file if needed
StepUpload ==
    /\ pc = "upload"
    /\ IF shouldUpload
       THEN /\ \E lresp \in LoginEnv(client), out \in UploadOutcomes, part \in Sizes :
                  /\ UploadEnv(localPath, out, part)
                  /\ Upload(log, localPath, remotePath, lresp, out, part)
            /\ OnReturn(ret'.err, "failed to upload file", "share")
       ELSE /\ pc' = "share"
            /\ UNCHANGED <<err, result, remote, shares, client, logins, log, ret>>
    /\ UNCHANGED <<fs, srcSize, direct, prev, args, localPath, remotePath, resourceRet, shouldUpload>>

ShareLit == <<"/", "s", "h", "a", "r", "e", "/">>
PublicDlLit == <<"/", "a", "p", "i", "/", "p", "u", "b", "l", "i", "c", "/", "d", "l", "/">>

\* ShareResult with the view path used for both URLs
ShareResultSamePath(url, hash) ==
    [ViewUrl |-> url \o ShareLit \o hash, DownloadUrl |-> url \o ShareLit \o hash]

\* the ShareResult SaveAndShare assembles
ShareResult(url, hash) ==
    [ViewUrl |-> url \o ShareLit \o hash, DownloadUrl |-> url \o PublicDlLit \o hash]

\* SaveAndShare, create share and return the result
StepShare ==
    /\ pc = "share"
    /\ \E lresp \in LoginEnv(client), resp \in ShareResponses :
          Share(log, remotePath, args.actionParams.ShareParams.Expires,
                args.actionParams.ShareParams.Password, args.actionParams.ShareParams.Unit,
                lresp, resp)
    /\ IF ret'.err # NoErr
       THEN Fail("failed to create share")
       ELSE /\ result' = ShareResult(client'.URL, ret'.val)
            /\ err' = NoErr
            /\ pc' = "done"
    /\ UNCHANGED <<fs, srcSize, direct, prev, args, localPath, remotePath, resourceRet, shouldUpload>>

\* the local path of the pipeline's source URL
PipelinePath == LocalPathForDownload(UrlFilesA)

Init ==
    /\ \E f \in FileStates : fs = [p \in LocalPaths |-> IF p = PipelinePath THEN f ELSE NoFile]
    /\ srcSize \in Sizes
    /\ remote \in [RemotePaths -> FileStates]
    /\ shares = 0
    /\ client = NoClient
    /\ logins = << >>
    /\ direct = FALSE
    /\ pc = "idle"
    /\ args = NoArgs
    /\ localPath = EmptyStr
    /\ remotePath = EmptyStr
    /\ resourceRet = NoResource
    /\ shouldUpload = TRUE
    /\ result = Nil
    /\ err = NoErr
    /\ log = << >>
    /\ ret = NoCall
    /\ prev = NoPrev

CallSaveAndShare ==
    \E auth \in AuthSet, externalURL \in PipelineURLs, remotePathFn \in FnKinds,
       actionParams \in ActionParamSet :
          Begin(auth, externalURL, remotePathFn, actionParams)

Next ==
    \/ CallSaveAndShare
    \/ StepDownload
    \/ StepRemotePath
    \/ StepGetResource
    \/ StepSync
    \/ StepUpload
    \/ StepShare
    \/ Return

Spec == Init /\ [][Next]_vars

\* ------------------------------------- SaveAndShare called again and again
\* the caller's first call, or its next call after one that failed
CallFirst == prev = NoPrev /\ CallSaveAndShare

\* the caller repeats a call that succeeded, with the same arguments
CallSameAgain ==
    /\ prev # NoPrev
    /\ Begin(prev.auth, prev.externalURL, prev.remotePathFn, prev.actionParams)

NextRepeat ==
    \/ CallFirst
    \/ CallSameAgain
    \/ StepDownload
    \/ StepRemotePath
    \/ StepGetResource
    \/ StepSync
    \/ StepUpload
    \/ StepShare
    \/ ReturnRemember

SpecRepeat == Init /\ [][NextRepeat]_vars

\* ------------------------------------------------ direct calls on a Client
\* the run-local variables while no SaveAndShare run is under way
NoRun(at) ==
    /\ pc = at
    /\ args = NoArgs
    /\ localPath = EmptyStr
    /\ remotePath = EmptyStr
    /\ resourceRet = NoResource
    /\ shouldUpload = TRUE
    /\ result = Nil
    /\ err = NoErr
    /\ log = << >>
    /\ ret = NoCall
    /\ prev = NoPrev

ClientSet == [URL : {BaseURL}, Username : {EmptyStr, User}, Password : {Pass},
              Token : {EmptyStr} \cup Tokens]

InitClient ==
    /\ \E f \in FileStates : fs = [p \in LocalPaths |-> IF p = PipelinePath THEN f ELSE NoFile]
    /\ srcSize = 0
    /\ remote \in [RemotePaths -> FileStates]
    /\ shares = 0
    /\ client \in ClientSet
    /\ logins = << >>
    /\ direct = FALSE
    /\ NoRun("client")

\* the caller may go on calling while fewer than MaxLogins logins were sent
MayCall == pc = "client" /\ ret = NoCall /\ Len(logins) < MaxLogins

\* the caller has taken the result of its last direct call
TakeResult ==
    /\ pc \in {"client", "unit"}
    /\ ret # NoCall
    /\ ret' = NoCall
    /\ log' = << >>
    /\ UNCHANGED <<envVars, clientVars, runVars>>

RemotePathArgs == RemotePaths \cup {EmptyStr}
LocalPathArgs == {PipelinePath, EmptyStr}
ExpiresArgs == (0 - 1)..MaxExpires
PasswordArgs == {EmptyStr, Pass}
UnitArgs == {EmptyStr, <<"d">>}

\* the caller calls Client.Login
CallLogin ==
    /\ MayCall
    /\ \E resp \in LoginResponses :
          LET r == Login(client, resp) IN
          /\ client' = r.client
          /\ logins' = logins \o r.sent
          /\ log' = LoginReqs(r)
          /\ ret' = [op |-> "Login", err |-> r.err]
    /\ direct' = TRUE
    /\ UNCHANGED <<envVars, runVars>>

\* the caller calls Client.GetResource
CallGetResource ==
    /\ MayCall
    /\ \E rp \in RemotePathArgs :
          \E lresp \in LoginEnv(client), resp \in GetResponses(rp) :
             GetResource(<< >>, rp, lresp, resp)
    /\ UNCHANGED <<fs, srcSize, direct, runVars>>

\* the caller calls Client.DeleteResource
CallDeleteResource ==
    /\ MayCall
    /\ \E rp \in RemotePathArgs :
          \E lresp \in LoginEnv(client), resp \in DeleteResponses(rp) :
             DeleteResource(<< >>, rp, lresp, resp)
    /\ UNCHANGED <<fs, srcSize, direct, runVars>>

\* the caller calls Client.Upload
CallUpload ==
    /\ MayCall
    /\ \E lp \in LocalPathArgs, rp \in RemotePathArgs :
          \E lresp \in LoginEnv(client), out \in UploadOutcomes, part \in Sizes :
             /\ UploadEnv(lp, out, part)
             /\ Upload(<< >>, lp, rp, lresp, out, part)
    /\ UNCHANGED <<fs, srcSize, direct, runVars>>

\* the caller calls Client.Share
CallShare ==
    /\ MayCall
    /\ \E rp \in RemotePathArgs, expires \in ExpiresArgs, password \in PasswordArgs,
          unit \in UnitArgs :
          \E lresp \in LoginEnv(client), resp \in ShareResponses :
             Share(<< >>, rp, expires, password, unit, lresp, resp)
    /\ UNCHANGED <<fs, srcSize, direct, runVars>>

NextClient ==
    \/ CallLogin
    \/ CallGetResource
    \/ CallDeleteResource
    \/ CallUpload
    \/ CallShare
    \/ TakeResult

SpecClient == InitClient /\ [][NextClient]_vars

\* ------------------------------------------- direct calls on the helpers
InitUnit ==
    /\ fs \in [LocalPaths -> FileStates]
    /\ srcSize \in Sizes
    /\ remote = [rp \in RemotePaths |-> NoFile]
    /\ shares = 0
    /\ client = NoClient
    /\ logins = << >>
    /\ direct = FALSE
    /\ NoRun("unit")

UnitIdle == pc = "unit" /\ ret = NoCall

\* the caller calls LocalPathForDownload
CallLocalPathForDownload ==
    /\ UnitIdle
    /\ \E u \in URLSet :
          ret' = [op |-> "LocalPathForDownload", url |-> u, val |-> LocalPathForDownload(u)]
    /\ log' = << >>
    /\ UNCHANGED <<envVars, clientVars, runVars>>

\* the caller calls EnsureFolderForFile
CallEnsureFolderForFile ==
    /\ UnitIdle
    /\ \E p \in LocalPaths \cup {EmptyStr}, mkdirOk \in BOOLEAN :
          /\ (p # EmptyStr /\ fs[p] # NoFile) => mkdirOk
          /\ ret' = [op |-> "EnsureFolderForFile", path |-> p, mkdirOk |-> mkdirOk,
                     err |-> EnsureFolderForFile(p, mkdirOk)]
    /\ log' = << >>
    /\ UNCHANGED <<envVars, clientVars, runVars>>

\* the caller calls fileExistsWithSameSize
CallFileExistsWithSameSize ==
    /\ UnitIdle
    /\ \E p \in LocalPaths, expectedSize \in SizeArgs, statErr \in BOOLEAN :
          ret' = [op |-> "fileExistsWithSameSize", path |-> p, expected |-> expectedSize,
                  statErr |-> statErr,
                  val |-> fileExistsWithSameSize(fs[p], expectedSize, statErr)]
    /\ log' = << >>
    /\ UNCHANGED <<envVars, clientVars, runVars>>

\* the caller calls FilebrowserAuth.Validate
CallValidate ==
    /\ UnitIdle
    /\ \E auth \in AuthSet :
          ret' = [op |-> "Validate", auth |-> auth, err |-> Validate(auth)]
    /\ log' = << >>
    /\ UNCHANGED <<envVars, clientVars, runVars>>

\* the caller calls DownloadToLocal
CallDownloadToLocal ==
    /\ UnitIdle
    /\ \E u \in DownloadURLs, fileSize \in SizeArgs :
          \E mkdirOk, statErr \in BOOLEAN, dl \in DlOutcomes, part \in Sizes :
             /\ DownloadEnv(u, mkdirOk, statErr, dl, part)
             /\ DownloadToLocal(<< >>, u, fileSize, mkdirOk, statErr, dl, part)
    /\ UNCHANGED <<srcSize, remote, shares, clientVars, runVars>>

NextUnit ==
    \/ CallLocalPathForDownload
    \/ CallEnsureFolderForFile
    \/ CallFileExistsWithSameSize
    \/ CallValidate
    \/ CallDownloadToLocal
    \/ TakeResult

SpecUnit == InitUnit /\ [][NextUnit]_vars

\* ================================================================ claims
\* the operations of the request log, in order
Ops == [i \in 1..Len(log) |-> log[i].op]
Issued(op) == \E i \in 1..Len(log) : log[i].op = op
CountOf(op) == Cardinality({i \in 1..Len(log) : log[i].op = op})

DeleteErrs == {"failed to delete existing resource", "failed to delete mismatched resource"}
InputErrs == {"invalid authentication", "external URL cannot be empty",
              "remote path function cannot be nil"}

\* the run has applied the size comparison and force overwrite
Synced == pc \in {"upload", "share"}
          \/ (pc = "done" /\ err \in {NoErr, "failed to upload file", "failed to create share"}
                                     \cup DeleteErrs)

\* C1: once a SaveAndShare run has compared the sizes, it has selected
\* exactly one action from (resource exists, Force, FileSize, remote size):
\* Upload (upload, no delete) when the resource does not exist;
\* Delete-then-upload when it exists and Force is set or FileSize > 0 differs
\* from the remote size; Skip (no delete, no upload) when it exists, Force is
\* not set and FileSize <= 0 or equal to the remote size.  Force wins over
\* equal sizes.
C1_SyncPolicy ==
    Synced =>
        LET exists == ~resourceRet.NotExist
            force == args.actionParams.Force
            fileSize == args.actionParams.FileSize
            differs == fileSize > 0 /\ fileSize # resourceRet.Size
        IN /\ ~exists => (~Issued("delete") /\ shouldUpload)
           /\ (exists /\ (force \/ differs)) => (Issued("delete") /\ shouldUpload)
           /\ (exists /\ ~force /\ ~differs) =>
                 (~Issued("delete") /\ ~shouldUpload /\ ~Issued("upload"))
           /\ (exists /\ force /\ fileSize = resourceRet.Size) => Issued("delete")
           /\ pc = "share" => (Issued("upload") <=> shouldUpload)
           /\ Issued("upload") => shouldUpload

\* C1 witness: the resource exists with the expected size, Force is set, and
\* the run has deleted and uploaded
C1_Witness ==
    /\ pc = "share"
    /\ ~resourceRet.NotExist
    /\ args.actionParams.Force
    /\ args.actionParams.FileSize = resourceRet.Size
    /\ Ops = <<"login", "get", "delete", "upload">>

\* the operations a run may have issued when it ends with error e
AllowedOps(e) ==
    CASE e \in InputErrs -> {}
      [] e = "failed to download file" -> {"transfer"}
      [] e = "remote path cannot be empty" -> {"transfer"}
      [] e = "failed to get resource info" -> {"transfer", "login", "get"}
      [] e \in DeleteErrs -> {"transfer", "login", "get", "delete"}
      [] e = "failed to upload file" -> {"transfer", "login", "get", "delete", "upload"}
      [] OTHER -> {"transfer", "login", "get", "delete", "upload", "share"}

\* C2: the first stage of a SaveAndShare run that fails ends the run with an
\* error and a nil result; no operation of a later stage is issued, and no
\* compensating operation: after an upload no delete is issued, and when the
\* share creation fails the uploaded resource stays in place.
C2_FailFast ==
    /\ (pc \notin {"idle", "done"}) => err = NoErr
    /\ (ret # NoCall /\ ret.err # NoErr) => (pc = "done" /\ err # NoErr)
    /\ (pc = "done" /\ err # NoErr) =>
          /\ result = Nil
          /\ \A i \in 1..Len(log) : log[i].op \in AllowedOps(err)
          /\ err \in InputErrs => ret = NoCall
          /\ (err \notin InputErrs /\ err # "remote path cannot be empty") => ret.err # NoErr
          /\ \A i, j \in 1..Len(log) : (log[i].op = "upload" /\ log[j].op = "delete") => j < i
          /\ (err = "failed to create share" /\ Issued("upload")) =>
                remote[remotePath] = fs[localPath]

\* C2 witness: the upload succeeded, the share creation failed
C2_Witness ==
    /\ pc = "done"
    /\ err = "failed to create share"
    /\ Ops = <<"transfer", "login", "get", "upload", "share">>
    /\ remote[remotePath] # NoFile

\* C8: a successful SaveAndShare return carries the hash of exactly one
\* share, created by the share request of that run, in both URLs; when the
\* resource was absent the run has downloaded, uploaded and shared, in that
\* order and without a delete.
C8_Result ==
    (pc = "done" /\ err = NoErr) =>
        /\ ret.op = "Share" /\ ret.err = NoErr
        /\ CountOf("share") = 1
        /\ log[Len(log)].op = "share"
        /\ ret.val = <<"h">> \o FormatInt(shares)
        /\ result.ViewUrl = args.auth.URL \o <<"/", "s", "h", "a", "r", "e", "/">> \o ret.val
        /\ result.DownloadUrl = args.auth.URL
              \o <<"/", "a", "p", "i", "/", "p", "u", "b", "l", "i", "c", "/", "d", "l", "/">>
              \o ret.val
        /\ resourceRet.NotExist =>
              /\ localPath = LocalPathForDownload(args.externalURL)
              /\ fs[localPath] # NoFile
              /\ Ops \in {<<"transfer", "login", "get", "upload", "share">>,
                          <<"login", "get", "upload", "share">>}
              /\ remote[remotePath] = fs[localPath]

\* C8 witness: the resource was absent and the run returned the two URLs
C8_Witness ==
    /\ pc = "done"
    /\ err = NoErr
    /\ resourceRet.NotExist
    /\ Ops = <<"transfer", "login", "get", "upload", "share">>
    /\ result.ViewUrl = <<"b", "/", "s", "h", "a", "r", "e", "/", "h", "1">>

\* a step in which the caller's DownloadToLocal(url, size) call with a
\* non-empty url runs
DownloadCall == ret = NoCall /\ ret'.op = "DownloadToLocal" /\ ret'.url # EmptyStr

\* the Local Cache Check on the file the call finds at its local path
CheckPasses(f, size, statErr) == size > 0 /\ f # NoFile /\ ~statErr /\ f = size

Transferred(l, url, path) == l = <<[op |-> "transfer", url |-> url, path |-> path]>>

\* C3 as stated: DownloadToLocal with a non-empty url performs no transfer
\* and returns the existing local path exactly when the Local Cache Check
\* passes; in every other case it performs a full transfer that overwrites
\* the file at the local path and returns the path on success.
C3_Original ==
    [][DownloadCall =>
         LET path == LocalPathForDownload(ret'.url)
             hit == CheckPasses(fs[path], ret'.size, ret'.statErr)
         IN /\ hit => (log' = << >> /\ fs' = fs /\ ret'.val = path /\ ret'.err = NoErr)
            /\ ~hit => /\ Transferred(log', ret'.url, path)
                       /\ ret'.err = NoErr => (ret'.val = path /\ fs'[path] = srcSize)]_vars

\* C3 as amended: the same, for the calls whose directory could be created;
\* when the directory cannot be created the call fails without a transfer.
C3_Download ==
    [][DownloadCall =>
         LET path == LocalPathForDownload(ret'.url)
             hit == CheckPasses(fs[path], ret'.size, ret'.statErr)
         IN /\ (ret'.mkdirOk /\ hit) =>
                  (log' = << >> /\ fs' = fs /\ ret'.val = path /\ ret'.err = NoErr)
            /\ (ret'.mkdirOk /\ ~hit) =>
                  /\ Transferred(log', ret'.url, path)
                  /\ ret'.err = NoErr => (ret'.val = path /\ fs'[path] = srcSize)
                  /\ \A q \in LocalPaths \ {path} : fs'[q] = fs[q]
            /\ ~ret'.mkdirOk => (log' = << >> /\ fs' = fs /\ ret'.err # NoErr)]_vars

\* C3 witness: a call found the file with the expected size and transferred nothing
C3_Witness ==
    /\ ret.op = "DownloadToLocal"
    /\ ret.size > 0
    /\ ret.err = NoErr
    /\ log = << >>
    /\ fs[ret.val] = ret.size

\* C4 as stated: for every expected size <= 0 fileExistsWithSameSize returns
\* false, whatever the state of the file.
C4_Original ==
    (ret.op = "fileExistsWithSameSize" /\ ret.expected <= 0) => ~ret.val

\* C4 as amended: for every expected size <= 0 DownloadToLocal's cache check
\* fails, so the call transfers; fileExistsWithSameSize itself returns false
\* for every negative expected size, and for expected size 0 it returns true
\* exactly when a file of length 0 exists whose size can be read.
C4_UnknownSize ==
    /\ (ret.op = "fileExistsWithSameSize" /\ ret.expected < 0) => ~ret.val
    /\ (ret.op = "fileExistsWithSameSize" /\ ret.expected = 0) =>
          (ret.val <=> (fs[ret.path] = 0 /\ ~ret.statErr))
    /\ (ret.op = "DownloadToLocal" /\ ret.url # EmptyStr /\ ret.size <= 0 /\ ret.mkdirOk) =>
          Issued("transfer")

\* C4 witness: expected size 0 and an empty file
C4_Witness ==
    /\ ret.op = "fileExistsWithSameSize"
    /\ ret.expected = 0
    /\ fs[ret.path] = 0
    /\ ret.val

\* C5: for every expected size > 0 fileExistsWithSameSize returns true if and
\* only if a file exists at the path, its size can be read and its length
\* equals the expected size exactly.
C5_SameSize ==
    (ret.op = "fileExistsWithSameSize" /\ ret.expected > 0) =>
        /\ ret.val <=> (fs[ret.path] # NoFile /\ ~ret.statErr /\ fs[ret.path] = ret.expected)
        /\ fs[ret.path] = NoFile => ~ret.val
        /\ ret.statErr => ~ret.val
        /\ fs[ret.path] \in {ret.expected - 1, ret.expected + 1} => ~ret.val

\* C5 witness: an existing file of the expected length
C5_Witness ==
    /\ ret.op = "fileExistsWithSameSize"
    /\ ret.expected > 0
    /\ fs[ret.path] = ret.expected
    /\ ret.val

\* the path component of a URL as written: what follows the scheme and the
\* authority, up to the query
PathComponent(raw) ==
    LET noFrag == Before(raw, "#")
        se == SchemeEnd(noFrag, 1)
        afterScheme == IF se > 0 THEN SubSeq(noFrag, se + 1, Len(noFrag)) ELSE noFrag
        rest == Before(afterScheme, "?")
    IN IF HasPrefix(rest, <<Slash, Slash>>) THEN From(SubSeq(rest, 3, Len(rest)), Slash)
       ELSE rest

\* temp-dir joined with a path component whose leading slash is stripped
TempPathOf(pathComponent) ==
    IF pathComponent \in {EmptyStr, <<Slash>>} THEN TempDir \o <<Slash>> \o DefaultName
    ELSE Join(TempDir, IF pathComponent[1] = Slash
                       THEN SubSeq(pathComponent, 2, Len(pathComponent))
                       ELSE pathComponent)

\* C9 as stated: LocalPathForDownload(url) is the temp directory joined with
\* the URL's path component without its leading slash, temp-dir/downloaded_file
\* when that component is empty or "/", and depends on the path component only.
C9_Original ==
    ret.op = "LocalPathForDownload" =>
        /\ ret.val = TempPathOf(PathComponent(ret.url))
        /\ \A u \in URLSet : PathComponent(u) = PathComponent(ret.url) =>
                                LocalPathForDownload(u) = ret.val

\* C9 as amended: that holds for every URL that url.Parse accepts; for a URL
\* it rejects the result is the temp directory joined with the last element
\* of the whole URL string.
C9_LocalPath ==
    ret.op = "LocalPathForDownload" =>
        /\ ParseURL(ret.url).ok =>
              /\ ret.val = TempPathOf(PathComponent(ret.url))
              /\ \A u \in URLSet :
                    (ParseURL(u).ok /\ PathComponent(u) = PathComponent(ret.url)) =>
                       LocalPathForDownload(u) = ret.val
        /\ ~ParseURL(ret.url).ok => ret.val = TempDir \o <<Slash>> \o Base(ret.url)
        /\ ret.url = UrlFilesA => ret.val = <<"/", "t", "/", "f", "/", "a">>
        /\ ret.url = UrlA => ret.val = <<"/", "t", "/", "a">>
        /\ ret.url = UrlRoot => ret.val = TempDir \o <<Slash>> \o DefaultName
        /\ ret.url = UrlOtherHost => ret.val = <<"/", "t", "/", "f", "/", "a">>

\* C9 witness: the URL whose path component is "/"
C9_Witness ==
    /\ ret.op = "LocalPathForDownload"
    /\ ret.url = UrlRoot
    /\ ret.val = TempDir \o <<Slash>> \o DefaultName

\* C10: FilebrowserAuth.Validate returns an error if and only if at least one
\* of URL, Username, Password is empty.
C10_Validate ==
    ret.op = "Validate" =>
        (ret.err # NoErr <=>
            (ret.auth.URL = EmptyStr \/ ret.auth.Username = EmptyStr \/ ret.auth.Password = EmptyStr))

\* C10 witness: only the password is empty
C10_Witness ==
    /\ ret.op = "Validate"
    /\ ret.auth.URL # EmptyStr
    /\ ret.auth.Username # EmptyStr
    /\ ret.auth.Password = EmptyStr
    /\ ret.err # NoErr

\* a login request is sent only by a call made while the client holds no token
LoginOnlyWithoutToken == logins' # logins => client.Token = EmptyStr

\* C6 as stated: while the caller never calls Login directly, at most one
\* login request is sent, and only by a call made while the client holds no
\* token.
C6_Original ==
    /\ [](~direct => Len(logins) <= 1)
    /\ [][~direct' => LoginOnlyWithoutToken]_vars

\* C6 as amended: while the caller never calls Login directly, a login
\* request is sent only by a call made while the client holds no token, no
\* login request follows one that succeeded, so at most one succeeds; a
\* failed login is sent again by the next call.
C6_LazyLogin ==
    /\ [](~direct => \A i \in 1..(Len(logins) - 1) : logins[i] = "fail")
    /\ [](~direct => ((logins # << >> /\ logins[Len(logins)] = "ok") => client.Token # EmptyStr))
    /\ [][~direct' => LoginOnlyWithoutToken]_vars

\* C6 witness: without a direct Login, a login failed and the next call's succeeded
C6_Witness ==
    /\ ~direct
    /\ logins = <<"fail", "ok">>
    /\ client.Token # EmptyStr

\* the bodies of the share requests in the request log
ShareBodies == {log[i].body : i \in {j \in 1..Len(log) : log[j].op = "share"}}
Keys(body) == {kv[1] : kv \in body}

\* C7 as stated: a Share with expires <= 0 sends a body without expiration,
\* unit and password; with expires > 0 the body carries the expiration
\* value, the caller's unit and the caller's password.
C7_Original ==
    ret.op = "Share" =>
        \A body \in ShareBodies :
            /\ ret.expires <= 0 => Keys(body) \cap {"Expires", "Unit", "Password"} = {}
            /\ ret.expires > 0 => body = {<<"Expires", FormatInt(ret.expires)>>,
                                          <<"Unit", ret.unit>>, <<"Password", ret.password>>}

\* C7 as amended: with expires <= 0 the body carries the three fields with
\* empty values, whatever password and unit the caller passed; with
\* expires > 0 it carries the expiration value in decimal, the caller's unit
\* and the caller's password.
C7_ShareBody ==
    ret.op = "Share" =>
        /\ (ret.path # EmptyStr /\ ret.err # "authentication failed") => ShareBodies # {}
        /\ \A body \in ShareBodies :
            /\ Keys(body) = {"Expires", "Unit", "Password"}
            /\ ret.expires <= 0 => body = {<<"Expires", EmptyStr>>, <<"Unit", EmptyStr>>,
                                           <<"Password", EmptyStr>>}
            /\ ret.expires > 0 => body = {<<"Expires", FormatInt(ret.expires)>>,
                                          <<"Unit", ret.unit>>, <<"Password", ret.password>>}
            /\ ret.expires = 1 => <<"Expires", <<"1">>>> \in body

\* C7 witness: a share request with expires <= 0 for a caller who passed a
\* password and a unit
C7_Witness ==
    /\ ret.op = "Share"
    /\ ret.expires <= 0
    /\ ret.password # EmptyStr
    /\ ret.unit # EmptyStr
    /\ ShareBodies # {}

\* a step of a SaveAndShare run that issues the upload request
UploadIssuedNow == Issued("upload")' /\ ~Issued("upload")

\* C11: in a SaveAndShare run the upload request is issued only if the
\* metadata query of the run reported the resource absent or a delete request
\* of the run has returned success before; no delete is issued after the
\* upload; when the delete fails neither upload nor share creation is issued.
C11_DeleteBeforeUpload ==
    /\ [][UploadIssuedNow =>
            /\ pc = "upload"
            /\ Issued("get")
            /\ \/ (resourceRet.NotExist /\ ~Issued("delete"))
               \/ (Issued("delete") /\ ret.op = "DeleteResource" /\ ret.err = NoErr
                   /\ remote[remotePath] = NoFile)]_vars
    /\ [](\A i, j \in 1..Len(log) : (log[i].op = "upload" /\ log[j].op = "delete") => j < i)
    /\ []((pc = "done" /\ err \in DeleteErrs) =>
             (ret.op = "DeleteResource" /\ ret.err # NoErr
              /\ ~Issued("upload") /\ ~Issued("share")))
    /\ []((ret # NoCall /\ ret.op = "DeleteResource" /\ ret.err # NoErr) =>
             (pc = "done" /\ err \in DeleteErrs))

\* C11 witness: the resource existed with another size, the run deleted it
\* and then uploaded
C11_Witness ==
    /\ pc = "share"
    /\ ~resourceRet.NotExist
    /\ ~args.actionParams.Force
    /\ Ops = <<"transfer", "login", "get", "delete", "upload">>

\* the run under way repeats, without Force, the arguments of the caller's
\* last call, which succeeded, and has compared the sizes
RepeatedAndSynced ==
    /\ prev # NoPrev
    /\ args = prev
    /\ ~args.actionParams.Force
    /\ Synced

\* the run has selected Skip
Skipped == ~shouldUpload /\ ~Issued("delete") /\ ~Issued("upload")

\* C12 as stated: with Force false, a call that repeats the arguments of a
\* call that succeeded selects Skip, for every FileSize.
C12_Original == RepeatedAndSynced => Skipped

\* C12 as amended: that holds when FileSize <= 0 or FileSize equals the
\* byte length of the file the source URL serves; with another FileSize > 0
\* the repeated call selects Skip only if the resource has that size, and
\* Delete-then-upload otherwise.
C12_RepeatSkips ==
    RepeatedAndSynced =>
        LET fileSize == args.actionParams.FileSize IN
        /\ ~resourceRet.NotExist
        /\ (fileSize <= 0 \/ fileSize = srcSize) => Skipped
        /\ (fileSize > 0 /\ resourceRet.Size # fileSize) =>
              (fileSize # srcSize /\ Issued("delete") /\ shouldUpload)
        /\ (fileSize > 0 /\ resourceRet.Size = fileSize) => Skipped

\* C12 witness: the repeated call, with the size of the source file, skips
C12_Witness ==
    /\ RepeatedAndSynced
    /\ pc = "share"
    /\ args.actionParams.FileSize = srcSize
    /\ srcSize > 0
    /\ Ops = <<"login", "get">>

\* a step in which the caller's direct Client.Login call runs
LoginCall == ret = NoCall /\ ret'.op = "Login"

\* C13: a Client.Login call that returns an error (request error, status
\* other than 200, or 200 with an empty body) leaves the client's Token
\* unchanged.
C13_TokenKept == [][(LoginCall /\ ret'.err # NoErr) => client'.Token = client.Token]_vars

\* C14: for every source URL the path LocalPathForDownload returns lies inside
\* the system temp directory, ".." segments in the URL's path included.
C14_InsideTempDir ==
    ret.op = "LocalPathForDownload" => HasPrefix(ret.val, TempDir \o <<"/">>)
====
